---- MODULE Spec2Model ----
(***************************************************************************)
(* A model of the FlowFormer cost-volume encoder (core/encoder.py,         *)
(* core/twins.py), of InputPadder (core/utils/utils.py) and of the way     *)
(* FlowFormer.inference uses it (core/transformer.py).                     *)
(*                                                                         *)
(* A tensor is a record [shape, data]: shape is the tuple of its sizes and *)
(* data its elements in row-major (contiguous) order.  Feature values are  *)
(* integers, so that the index arithmetic of view / permute / reshape /    *)
(* bmm is computed exactly as torch computes it.                           *)
(***************************************************************************)
EXTENDS Integers, Sequences, FiniteSets, TLC

(***************************************************************************)
(* Bounds of the model.                                                    *)
(***************************************************************************)
MaxHW == 2
MaxImg == 17
MaxGrid == 3
MaxWs == 3
MaxMap == 17
MaxDepth == 2

(***************************************************************************)
(* The state variables, grouped by component; each group is described      *)
(* where its component is modelled.  A component's steps leave the other   *)
(* components' variables alone.                                            *)
(***************************************************************************)
VARIABLES cpc, heads, feat_s, feat_t, fmap1, fmap2, corr_bmm, corr
VARIABLES ppc, mode, img_ht, img_wd, pad_, rows, cols
VARIABLES apc, a_self, a_in, a_size, a_context, context, x, x_qk, attn_q, attn_kv
VARIABLES tpc, pe_self, pe_in, pe_x, pe_pad, pe_stage, out_size, pe_ret
VARIABLES epc, entry, cfg, feats, enc_context, cost_volume, cost_maps, h3w3, enc_x,
          short_cut, layer_idx, data, data_in

corrVars == <<cpc, heads, feat_s, feat_t, fmap1, fmap2, corr_bmm, corr>>
padVars == <<ppc, mode, img_ht, img_wd, pad_, rows, cols>>
attnVars == <<apc, a_self, a_in, a_size, a_context, context, x, x_qk,
             attn_q, attn_kv>>
patchVars == <<tpc, pe_self, pe_in, pe_x, pe_pad, pe_stage, out_size, pe_ret>>
encVars == <<epc, entry, cfg, feats, enc_context, cost_volume, cost_maps, h3w3, enc_x,
            short_cut, layer_idx, data, data_in>>
vars == <<corrVars, padVars, attnVars, patchVars, encVars>>

OnlyCorr == UNCHANGED <<padVars, attnVars, patchVars, encVars>>
OnlyPad == UNCHANGED <<corrVars, attnVars, patchVars, encVars>>
OnlyAttn == UNCHANGED <<corrVars, padVars, patchVars, encVars>>
OnlyPatch == UNCHANGED <<corrVars, padVars, attnVars, encVars>>
OnlyEnc == UNCHANGED <<padVars, attnVars, patchVars>>

(***************************************************************************)
(* Tensor library: torch's shape and index semantics.                      *)
(***************************************************************************)
RECURSIVE Prod(_)
Prod(s) == IF s = <<>> THEN 1 ELSE Head(s) * Prod(Tail(s))

RECURSIVE SeqSum(_)
SeqSum(s) == IF s = <<>> THEN 0 ELSE Head(s) + SeqSum(Tail(s))

Numel(t) == Prod(t.shape)

\* flat 0-based offset of the 0-based multi-index idx in a contiguous tensor
RECURSIVE RavelFrom(_, _, _)
RavelFrom(idx, shape, acc) ==
    IF idx = <<>> THEN acc
    ELSE RavelFrom(Tail(idx), Tail(shape), acc * Head(shape) + Head(idx))

Ravel(idx, shape) == RavelFrom(idx, shape, 0)

\* 0-based multi-index of the flat 0-based offset k
RECURSIVE Unravel(_, _)
Unravel(k, shape) ==
    IF shape = <<>> THEN <<>>
    ELSE LET rest == Prod(Tail(shape))
         IN  <<k \div rest>> \o Unravel(k % rest, Tail(shape))

\* element at a 0-based multi-index
At(t, idx) == t.data[Ravel(idx, t.shape) + 1]

\* torch infer_size: the shape a view / reshape to `shape` (at most one -1)
\* yields for numel elements; <<"error">> when torch raises
InferPos(shape) == {a \in 1..Len(shape) : shape[a] = -1}

InferSize(numel, shape) ==
    LET inf == InferPos(shape)
        newsize == Prod([a \in 1..Len(shape) |-> IF shape[a] = -1 THEN 1 ELSE shape[a]])
    IN  IF Cardinality(inf) > 1 THEN <<"error">>
        ELSE IF inf = {} THEN (IF numel = newsize THEN shape ELSE <<"error">>)
        ELSE IF numel = newsize \/ (newsize > 0 /\ numel % newsize = 0)
             THEN (IF newsize = 0 THEN <<"error">>
                   ELSE [a \in 1..Len(shape) |->
                            IF shape[a] = -1 THEN numel \div newsize ELSE shape[a]] \o <<>>)
             ELSE <<"error">>

ViewOk(t, shape) == InferSize(Numel(t), shape) # <<"error">>

\* Tensor.view / Tensor.reshape of a contiguous tensor: same elements, new sizes
View(t, shape) == [shape |-> InferSize(Numel(t), shape), data |-> t.data]

\* row-major strides of a contiguous tensor of the given sizes
Strides(shape) == [a \in 1..Len(shape) |-> Prod(SubSeq(shape, a + 1, Len(shape)))]

\* Tensor.permute(dims), dims 0-based as in torch; the result is laid out
\* contiguously, i.e. this is permute followed by the copy reshape makes:
\* element k of the result is the element of t whose index along t's axis
\* dims[a] is k's index along the result's axis a
Permute(t, dims) ==
    LET n == Len(dims)
        newshape == [a \in 1..n |-> t.shape[dims[a] + 1]] \o <<>>
        nstr == Strides(newshape) \o <<>>
        ostr == Strides(t.shape) \o <<>>
        src(k) == SeqSum([a \in 1..n |->
                     ((k \div nstr[a]) % newshape[a]) * ostr[dims[a] + 1]])
    IN  [shape |-> newshape,
         data |-> IF t.data = <<>> THEN <<>>
                  ELSE [k \in 1..Prod(newshape) |-> t.data[src(k - 1) + 1]] \o <<>>]

\* Tensor.transpose(a, b)
Transpose(t, a, b) ==
    Permute(t, [o \in 1..Len(t.shape) |->
                   IF o - 1 = a THEN b ELSE IF o - 1 = b THEN a ELSE o - 1])

\* torch.bmm(a, b): a is (n, M, d), b is (n, d, P)
BmmOk(a, b) ==
    /\ Len(a.shape) = 3 /\ Len(b.shape) = 3
    /\ a.shape[1] = b.shape[1]
    /\ a.shape[3] = b.shape[2]

Bmm(a, b) ==
    LET n == a.shape[1]
        M == a.shape[2]
        d == a.shape[3]
        P == b.shape[3]
        oshape == <<n, M, P>>
        \* out[m, i, j] = sum over c of a[m, i, c] * b[m, c, j]
        cell(k) == LET m == k \div (M * P)
                       i == (k \div P) % M
                       j == k % P
                   IN  SeqSum([c \in 1..d |->
                          a.data[(m * M + i) * d + c] * b.data[(m * d + c - 1) * P + j + 1]])
    IN  [shape |-> oshape,
         data |-> IF a.data = <<>> \/ b.data = <<>> THEN <<>>
                  ELSE [k \in 1..Prod(oshape) |-> cell(k - 1)] \o <<>>]

Tracked(t) == Len(t.data) = Numel(t)
NoTensor == [shape |-> <<>>, data |-> <<>>]

(***************************************************************************)
(* MemoryEncoder.corr, encoder.py 244-270: one call, stage by stage.       *)
(*     cpc        position in corr                                         *)
(*     heads      cfg.cost_heads_num                                       *)
(*     feat_s, feat_t   the caller's two feature maps (never written)      *)
(*     fmap1, fmap2     corr's locals of that name (rebound by the code)   *)
(*     corr_bmm, corr   corr's locals of that name; corr is the result     *)
(***************************************************************************)
\* line 247: d = dim // heads
HeadDim(dim, h) == dim \div h

\* lines 250-252 and 259 (254-256 and 260 for fmap2):
\* [b, heads*d, ht, wd] -> [b, heads, d, ht, wd] -> [b, heads, ht, wd, d]
\*                      -> [b, heads, ht*wd, d] -> [b*heads, ht*wd, d]
CorrSplitOk(f, batch, h, d, ht, wd) == ViewOk(f, <<batch, h, d, ht, wd>>)

CorrSplitNoPermute(f, batch, h, d, ht, wd) ==
    View(View(View(f, <<batch, h, d, ht, wd>>),
              <<batch, h, ht * wd, d>>),
         <<batch * h, ht * wd, d>>)

CorrSplit(f, batch, h, d, ht, wd) ==
    View(View(Permute(View(f, <<batch, h, d, ht, wd>>), <<0, 1, 3, 4, 2>>),
              <<batch, h, ht * wd, d>>),
         <<batch * h, ht * wd, d>>)

\* line 261: torch.bmm(fmap1_bmm, fmap2_bmm.transpose(1, 2))
CorrBmmScaled(f1, f2) ==
    LET r == Bmm(f1, Transpose(f2, 1, 2))
    IN  [shape |-> r.shape,
         data |-> [k \in 1..Len(r.data) |-> r.data[k] \div f1.shape[3]] \o <<>>]

CorrBmm(f1, f2) == Bmm(f1, Transpose(f2, 1, 2))

\* lines 264-268
CorrReorder(cb, batch, h, ht, wd) ==
    LET c1 == View(cb, <<batch, h, ht * wd, ht * wd>>)
        c2 == View(Permute(c1, <<0, 2, 1, 3>>), <<batch * ht * wd, h, ht, wd>>)
        c3 == Permute(View(c2, <<batch, ht * wd, h, ht * wd>>), <<0, 2, 1, 3>>)
    IN  View(c3, <<batch, h, ht, wd, ht, wd>>)

\* lines 245-270 as one function, for a call that does not raise
CorrOf(f1, f2, h) ==
    LET batch == f1.shape[1]
        ht == f1.shape[3]
        wd == f1.shape[4]
        d == HeadDim(f1.shape[2], h)
    IN  CorrReorder(CorrBmm(CorrSplit(f1, batch, h, d, ht, wd),
                            CorrSplit(f2, batch, h, d, ht, wd)),
                    batch, h, ht, wd)

\* the inputs the model feeds: a ramp of distinct values, or a single
\* non-zero element
Ramp(shape, off) == [shape |-> shape, data |-> [k \in 1..Prod(shape) |-> k + off]]
Hot(shape, p, v) == [shape |-> shape,
                     data |-> [k \in 1..Prod(shape) |-> IF k = p THEN v ELSE 0]]

\* the shapes of a second feature map that go with a first one of shape s
OtherShapes(s) ==
    { s,
      <<s[1], s[2], s[4], s[3]>>,
      <<s[1], s[2], 1, s[3] * s[4]>>,
      <<s[1], s[2], s[3] + 1, s[4]>>,
      <<s[1], s[2], s[3], s[4] + 1>> }

HeadsSet == {1, 2}
BatchSet == {1, 2}
DimSet == 1..4

FmapShapes == { <<b, c, h, w>> : b \in BatchSet, c \in DimSet,
                                 h \in 1..MaxHW, w \in 1..MaxHW }

FmapPairs(s, h) ==
    { <<Ramp(s, 0), Ramp(s2, 1)>> : s2 \in OtherShapes(s) }
    \cup { <<Ramp(s, 0), Ramp(s, 0)>> }
    \cup (IF s[2] % h = 0
          THEN { <<Hot(s, p, 1), Ramp(s, 1)>> : p \in 1..Prod(s) }
               \cup { <<Ramp(s, 0), Hot(s, p, 2)>> : p \in 1..Prod(s) }
          ELSE {})

CorrInit ==
    /\ cpc = "call"
    /\ heads \in HeadsSet
    /\ \E s \in FmapShapes : \E pr \in FmapPairs(s, heads) :
          /\ feat_s = pr[1]
          /\ feat_t = pr[2]
    /\ fmap1 = NoTensor
    /\ fmap2 = NoTensor
    /\ corr_bmm = NoTensor
    /\ corr = NoTensor

\* lines 245-260: unpack fmap1.shape, split both maps into heads
CorrSplitStep ==
    /\ cpc = "call"
    /\ LET batch == feat_s.shape[1]
           dim == feat_s.shape[2]
           ht == feat_s.shape[3]
           wd == feat_s.shape[4]
           d == HeadDim(dim, heads)
       IN  IF CorrSplitOk(feat_s, batch, heads, d, ht, wd)
              /\ CorrSplitOk(feat_t, batch, heads, d, ht, wd)
           THEN /\ fmap1' = CorrSplit(feat_s, batch, heads, d, ht, wd)
                /\ fmap2' = CorrSplit(feat_t, batch, heads, d, ht, wd)
                /\ cpc' = "bmm"
           ELSE /\ cpc' = "raised"
                /\ UNCHANGED <<fmap1, fmap2>>
    /\ UNCHANGED <<heads, feat_s, feat_t, corr_bmm, corr>>
    /\ OnlyCorr

\* line 261
CorrBmmStep ==
    /\ cpc = "bmm"
    /\ IF BmmOk(fmap1, Transpose(fmap2, 1, 2))
       THEN /\ corr_bmm' = CorrBmm(fmap1, fmap2)
            /\ cpc' = "reorder"
       ELSE /\ cpc' = "raised"
            /\ UNCHANGED corr_bmm
    /\ UNCHANGED <<heads, feat_s, feat_t, fmap1, fmap2, corr>>
    /\ OnlyCorr

\* lines 264-270
CorrReorderStep ==
    /\ cpc = "reorder"
    /\ corr' = CorrReorder(corr_bmm, feat_s.shape[1], heads,
                           feat_s.shape[3], feat_s.shape[4])
    /\ cpc' = "returned"
    /\ UNCHANGED <<heads, feat_s, feat_t, fmap1, fmap2, corr_bmm>>
    /\ OnlyCorr

NextCorr == CorrSplitStep \/ CorrBmmStep \/ CorrReorderStep

\* no call of corr in progress
CorrIdle ==
    /\ cpc = "off"
    /\ heads = 0
    /\ feat_s = NoTensor
    /\ feat_t = NoTensor
    /\ fmap1 = NoTensor
    /\ fmap2 = NoTensor
    /\ corr_bmm = NoTensor
    /\ corr = NoTensor

(***************************************************************************)
(* Claims about MemoryEncoder.corr, checked under SpecCorr.                *)
(***************************************************************************)
\* the dot product over head h's channels of source pixel (i, j) of f1 and
\* target pixel (k, l) of f2
HeadDot(f1, f2, b, h, d, i, j, k, l) ==
    SeqSum([c \in 1..d |-> At(f1, <<b, h * d + c - 1, i, j>>)
                           * At(f2, <<b, h * d + c - 1, k, l>>)])

CorrValidCall == feat_t.shape = feat_s.shape /\ feat_s.shape[2] % heads = 0

\* C1: for same-shaped maps and heads dividing the channel count, corr does not
\* raise and returns a volume of shape (batch, heads, H, W, H, W) whose entry
\* [b, h, i, j, k, l] is the raw dot product over head h's channels of
\* fmap1[b, :, i, j] and fmap2[b, :, k, l]; with both inputs the same map, the
\* entry [b, h, i, j, i, j] is pixel (i, j)'s self dot product.
C1_CorrIsPerHeadDotProduct ==
    CorrValidCall =>
      /\ cpc # "raised"
      /\ cpc = "returned" =>
           LET batch == feat_s.shape[1]
               ht == feat_s.shape[3]
               wd == feat_s.shape[4]
               d == feat_s.shape[2] \div heads
           IN  /\ corr.shape = <<batch, heads, ht, wd, ht, wd>>
               /\ \A b \in 0..(batch - 1), h \in 0..(heads - 1),
                     i \in 0..(ht - 1), j \in 0..(wd - 1) :
                     /\ \A k \in 0..(ht - 1), l \in 0..(wd - 1) :
                           At(corr, <<b, h, i, j, k, l>>)
                             = HeadDot(feat_s, feat_t, b, h, d, i, j, k, l)
                     /\ feat_s = feat_t =>
                           At(corr, <<b, h, i, j, i, j>>)
                             = HeadDot(feat_s, feat_s, b, h, d, i, j, i, j)

\* a returned volume for 2 heads of 2 channels each on a non-square grid with
\* more than one batch item, some entry of it non-zero
C1_Witness ==
    /\ cpc = "returned"
    /\ CorrValidCall
    /\ heads = 2
    /\ feat_s.shape = <<2, 4, 1, 2>>
    /\ \E k \in 1..Len(corr.data) : corr.data[k] # 0

\* s * t, element by element
Scale(t, s) == [shape |-> t.shape, data |-> [k \in 1..Len(t.data) |-> s * t.data[k]] \o <<>>]

Scalars == {-2, 0, 3}

\* C13: for every scalar s and every call of corr that returns,
\* corr(s*fmap1, fmap2) and corr(fmap1, s*fmap2) both equal s * corr(fmap1,
\* fmap2) entry by entry; and for same-shaped maps every entry is the dot
\* product itself, neither normalized nor scaled by 1/sqrt(d).
C13_CorrBilinear ==
    cpc = "returned" =>
      /\ \A s \in Scalars :
            /\ CorrOf(Scale(feat_s, s), feat_t, heads) = Scale(corr, s)
            /\ CorrOf(feat_s, Scale(feat_t, s), heads) = Scale(corr, s)
      /\ CorrValidCall =>
            \A k \in 1..Len(corr.data) :
               LET ix == Unravel(k - 1, corr.shape)
               IN  corr.data[k] = HeadDot(feat_s, feat_t, ix[1], ix[2],
                                          feat_s.shape[2] \div heads,
                                          ix[3], ix[4], ix[5], ix[6])

\* a returned volume of heads of 2 channels, not all of it zero, that scaling
\* the first map by 3 changes
C13_Witness ==
    /\ cpc = "returned"
    /\ CorrValidCall
    /\ feat_s.shape = <<1, 4, 2, 1>>
    /\ heads = 2
    /\ corr.data[1] > 0
    /\ CorrOf(Scale(feat_s, 3), feat_t, heads).data[1] = 3 * corr.data[1]

\* C9: corr called with two maps whose spatial dimensions disagree never
\* returns a cost volume.
C9_MismatchNeverReturns ==
    (feat_t.shape[3] # feat_s.shape[3] \/ feat_t.shape[4] # feat_s.shape[4])
      => cpc # "returned"

(***************************************************************************)
(* InputPadder, utils.py 7-27, as FlowFormer.inference uses it             *)
(* (transformer.py 49-54).                                                 *)
(*                                                                         *)
(* State of one padder and the tensor it is applied to:                    *)
(*     ppc        "new", "constructed", "padded", "unpadded", "raised"     *)
(*     mode       the mode argument                                        *)
(*     img_ht, img_wd   dims[-2:] of the image the padder is built for     *)
(*     pad_       self._pad = [left, right, top, bottom]                   *)
(*     rows, cols the current tensor: its row i holds the image's row      *)
(*                rows[i], its column j the image's column cols[j].        *)
(*                Padding, replication and slicing act on the two axes     *)
(*                independently, so the two index maps determine every     *)
(*                element.                                                 *)
(***************************************************************************)
KittiHt == 400

\* lines 11-12: (((n // 8) + 1) * 8 - n) % 8
PadTo8(n) == (((n \div 8) + 1) * 8 - n) % 8

\* lines 13-18: self._pad
PadAmounts(md, ht, wd) ==
    LET pad_ht == PadTo8(ht)
        pad_wd == PadTo8(wd)
    IN  IF md = "sintel"
        THEN <<pad_wd \div 2, pad_wd - pad_wd \div 2, pad_ht \div 2, pad_ht - pad_ht \div 2>>
        ELSE IF md = "kitti400"
        THEN <<0, 0, 0, KittiHt - ht>>
        ELSE <<pad_wd \div 2, pad_wd - pad_wd \div 2, 0, pad_ht>>

Clamp(i, lo, hi) == IF i < lo THEN lo ELSE IF i > hi THEN hi ELSE i

\* F.pad(x, (before, after), mode='replicate') along one axis: before + n +
\* after entries, entry i a copy of entry clamp(i - before) of the input; a
\* negative amount narrows the axis
ReplicatePad(axis, before, after) ==
    LET n == Len(axis)
        out == n + before + after
    IN  [i \in 1..out |-> axis[Clamp(i - before, 1, n)]]

ReplicatePadOk(axis, before, after) == Len(axis) + before + after >= 1

\* Python's x[a:b] along one axis of length n
SliceBound(a, n) == IF a < 0 THEN (IF a + n < 0 THEN 0 ELSE a + n)
                    ELSE (IF a > n THEN n ELSE a)

Slice(axis, a, b) ==
    LET lo == SliceBound(a, Len(axis))
        hi == SliceBound(b, Len(axis))
    IN  IF lo < hi THEN SubSeq(axis, lo + 1, hi) ELSE <<>>

\* line 26: c = [_pad[2], ht - _pad[3], _pad[0], wd - _pad[1]]
UnpadBoxSwapped(pd, ht, wd) == <<pd[3], ht - pd[4], pd[2], wd - pd[1]>>

UnpadBox(pd, ht, wd) == <<pd[3], ht - pd[4], pd[1], wd - pd[2]>>

Identity(n) == [i \in 1..n |-> i]

ImgHeights == (1..MaxImg) \cup ((KittiHt - 2)..(KittiHt + 2))
ImgWidths == 1..MaxImg
Modes == {"sintel", "kitti400", "other"}

PadInit ==
    /\ ppc = "new"
    /\ mode \in Modes
    /\ img_ht \in ImgHeights
    /\ img_wd \in ImgWidths
    /\ pad_ = <<>>
    /\ rows = Identity(img_ht)
    /\ cols = Identity(img_wd)

\* InputPadder.__init__, lines 9-18
PadderInit ==
    /\ ppc = "new"
    /\ pad_' = PadAmounts(mode, img_ht, img_wd)
    /\ ppc' = "constructed"
    /\ UNCHANGED <<mode, img_ht, img_wd, rows, cols>>
    /\ OnlyPad

\* InputPadder.pad, lines 20-22
PadderPad ==
    /\ ppc = "constructed"
    /\ IF SeqSum(pad_) = 0
       THEN /\ ppc' = "padded"
            /\ UNCHANGED <<rows, cols>>
       ELSE IF ReplicatePadOk(rows, pad_[3], pad_[4]) /\ ReplicatePadOk(cols, pad_[1], pad_[2])
       THEN /\ rows' = ReplicatePad(rows, pad_[3], pad_[4])
            /\ cols' = ReplicatePad(cols, pad_[1], pad_[2])
            /\ ppc' = "padded"
       ELSE /\ ppc' = "raised"
            /\ UNCHANGED <<rows, cols>>
    /\ UNCHANGED <<mode, img_ht, img_wd, pad_>>
    /\ OnlyPad

\* InputPadder.unpad, lines 24-27
PadderUnpad ==
    /\ ppc = "padded"
    /\ LET c == UnpadBox(pad_, Len(rows), Len(cols))
       IN  /\ rows' = Slice(rows, c[1], c[2])
           /\ cols' = Slice(cols, c[3], c[4])
    /\ ppc' = "unpadded"
    /\ UNCHANGED <<mode, img_ht, img_wd, pad_>>
    /\ OnlyPad

NextPad == PadderInit \/ PadderPad \/ PadderUnpad

\* no padder in use
PadIdle ==
    /\ ppc = "off"
    /\ mode = "none"
    /\ img_ht = 0
    /\ img_wd = 0
    /\ pad_ = <<>>
    /\ rows = <<>>
    /\ cols = <<>>

(***************************************************************************)
(* Claims about InputPadder, checked under SpecPad.                        *)
(***************************************************************************)
RoundTripExact == rows = Identity(img_ht) /\ cols = Identity(img_wd)

C12_PaddedDivisibleBy8 ==
    ppc = "padded" => Len(rows) % 8 = 0 /\ Len(cols) % 8 = 0

(***************************************************************************)
(* The spatial attention of twins.py: LocallyGroupedAttnRPEContext (LSA),  *)
(* GlobalSubSampleAttnRPEContext (GSA) and their choice by Block.          *)
(*                                                                         *)
(* What the model follows through a forward call is where every element    *)
(* comes from.  The input x has shape (B, N, C); its element (b, n, c)     *)
(* carries the set {b*N + n + 1}, the number of its token.  A padding      *)
(* element carries {}.  A linear layer mixes the channels of one token, a  *)
(* strided convolution the tokens of one block, and softmax attention      *)
(* gives every key a positive weight, so a result element carries the      *)
(* union of what went in.  The result of attention is kept as two          *)
(* tensors of the same shape: attn_q, the token each element is the        *)
(* output for (its query), and attn_kv, the tokens it is computed from     *)
(* (its keys and values).  The context tensor has 256 channels; only its   *)
(* shape is followed.                                                      *)
(*                                                                         *)
(*     apc        "new", "built", "ctor_raised", "context", "split",       *)
(*                "attended", "returned", "raised"                         *)
(*     a_self     the module: the class constructed, its arguments (cfg),  *)
(*                the class of the attention it holds (attn: Block holds   *)
(*                one, LSA and GSA are their own) and attrs, the           *)
(*                attributes the attention's __init__ assigned             *)
(*     a_in       forward's argument x                                     *)
(*     a_size     forward's argument size = (H, W)                         *)
(*     a_context  forward's argument context: its shape, <<>> for None     *)
(*     context    forward's local context after lines 85-88: its shape     *)
(*     x, x_qk    forward's locals of that name                            *)
(***************************************************************************)
CtxChannels == 256

\* 0-based multi-index of the k-th element (k from 1) of a contiguous tensor
\* of the given sizes and strides
IndexOf(k, st, shape) == [a \in 1..Len(shape) |-> ((k - 1) \div st[a]) % shape[a]]

Front(sq) == SubSeq(sq, 1, Len(sq) - 1)
Last(sq) == sq[Len(sq)]

\* nn.Linear(nin, nout) on the last axis: every output channel of a token is
\* computed from all input channels of that token
LinearOk(t, nin) == Len(t.shape) >= 1 /\ Last(t.shape) = nin

Linear(t, nout) ==
    LET nin == Last(t.shape)
    IN  [shape |-> Front(t.shape) \o <<nout>>,
         data |-> [k \in 1..(Prod(Front(t.shape)) * nout) |->
                     UNION {t.data[((k - 1) \div nout) * nin + c] : c \in 1..nin}] \o <<>>]

\* torch.cat([x, context], dim=-1) with context of vc channels: the token's
\* own channels, then vc channels of its context
CatContext(t, vc) ==
    LET C == Last(t.shape)
    IN  [shape |-> Front(t.shape) \o <<C + vc>>,
         data |-> [k \in 1..(Prod(Front(t.shape)) * (C + vc)) |->
                     t.data[((k - 1) \div (C + vc)) * C + 1]] \o <<>>]

\* lines 94-95 / 171-172: (ws - n % ws) % ws
PadUpTo(n, ws) == (ws - (n % ws)) % ws

\* F.pad(x, (0, 0, 0, pad_r, 0, pad_b)) of a (B, H, W, C) tensor
PadHW(t, pad_r, pad_b) ==
    LET H == t.shape[2]
        W == t.shape[3]
        shp == <<t.shape[1], H + pad_b, W + pad_r, t.shape[4]>>
        st == Strides(shp) \o <<>>
    IN  [shape |-> shp,
         data |-> [k \in 1..Prod(shp) |->
                     LET ix == IndexOf(k, st, shp)
                     IN  IF ix[2] < H /\ ix[3] < W THEN At(t, ix) ELSE {}] \o <<>>]

\* x[:, :H, :W, :]
CropHW(t, H, W) ==
    LET shp == <<t.shape[1], IF H < t.shape[2] THEN H ELSE t.shape[2],
                 IF W < t.shape[3] THEN W ELSE t.shape[3], t.shape[4]>>
        st == Strides(shp) \o <<>>
    IN  [shape |-> shp,
         data |-> [k \in 1..Prod(shp) |-> At(t, IndexOf(k, st, shp))] \o <<>>]

\* nn.Conv2d(cin, cout, kernel_size=sr, stride=sr) on (B, cin, H, W)
ConvBlocks(t, cout, sr) ==
    LET shp == <<t.shape[1], cout, t.shape[3] \div sr, t.shape[4] \div sr>>
        st == Strides(shp) \o <<>>
    IN  [shape |-> shp,
         data |-> [k \in 1..Prod(shp) |->
                     LET ix == IndexOf(k, st, shp)
                     IN  UNION {At(t, <<ix[1], c, ix[3] * sr + di, ix[4] * sr + dj>>) :
                                  c \in 0..(t.shape[2] - 1),
                                  di \in 0..(sr - 1), dj \in 0..(sr - 1)}] \o <<>>]

\* softmax(q @ k^T * scale) @ v over the last two axes (slots, head_dim) of
\* (..., S, hd) queries and (..., K, hd) keys and values, leading axes equal:
\* the queries of the result, and what each element is computed from
AttendQ(q) ==
    LET hd == Last(q.shape)
    IN  [shape |-> q.shape,
         data |-> [k \in 1..Prod(q.shape) |->
                     UNION {q.data[((k - 1) \div hd) * hd + e] : e \in 1..hd}] \o <<>>]

AttendKV(q, kk, v) ==
    LET hd == Last(q.shape)
        S == q.shape[Len(q.shape) - 1]
        K == kk.shape[Len(kk.shape) - 1]
        grp(k) == (k - 1) \div (S * hd)
    IN  [shape |-> q.shape,
         data |-> [k \in 1..Prod(q.shape) |->
                     UNION {kk.data[grp(k) * K * hd + j] \cup v.data[grp(k) * K * hd + j] :
                              j \in 1..(K * hd)}] \o <<>>]

\* forward's argument x: B sequences of N tokens of C channels
TokenIds(B, N, C) ==
    [shape |-> <<B, N, C>>,
     data |-> [k \in 1..(B * N * C) |-> {(k - 1) \div C + 1}] \o <<>>]

\* Tensor.repeat(r, 1, 1, 1) of a tensor of the given sizes
RepeatShapeOnce(shape, r) == shape

RepeatShape(shape, r) == <<r * shape[1]>> \o Tail(shape)

\* lines 85-88 / 164-167: the shape of context after them, <<"error">> when
\* one of them raises
ContextShape(ctx, B, H, W, vc) ==
    IF ctx = <<>> THEN <<"error">>
    ELSE LET rep == RepeatShape(ctx, B \div ctx[1])
             v1 == InferSize(Prod(rep), <<B, -1, H * W>>)
         IN  IF v1 = <<"error">> THEN <<"error">>
             ELSE IF v1[2] # CtxChannels THEN <<"error">>
             ELSE InferSize(B * H * W * vc, <<B, H, W, -1>>)

\* LocallyGroupedAttnRPEContext.__init__, lines 56-75
LSAInitOk(dim, num_heads, ws) == ws # 1 /\ dim % num_heads = 0

\* GlobalSubSampleAttnRPEContext.__init__, lines 133-158
GSAInitOk(dim, num_heads) == dim % num_heads = 0

GSAAttrs(sr_ratio) ==
    IF sr_ratio > 1 THEN {"sr_key", "sr_value", "norm"} ELSE {"sr", "norm"}

\* Block.__init__, lines 233-236
BlockAttnClass(ws) == IF ws = 1 THEN "GSA" ELSE "LSA"

\* LSA lines 99-102: (B, Hp, Wp, C) -> (B, _h, _w, ws, ws, C)
LSAWindowsNoTranspose(t, ws) ==
    View(t, <<t.shape[1], t.shape[2] \div ws, t.shape[3] \div ws, ws, ws, t.shape[4]>>)

LSAWindows(t, ws) ==
    Transpose(View(t, <<t.shape[1], t.shape[2] \div ws, ws, t.shape[3] \div ws, ws,
                        t.shape[4]>>), 2, 3)

\* LSA lines 104-105, 114-117: (B, _h, _w, ws, ws, C)
\*   -> (B, _h*_w, ws*ws, 1, heads, C//heads) -> (B, _h*_w, heads, ws*ws, C//heads)
LSAHeads(t, nh) ==
    LET B == t.shape[1]
        G == t.shape[2] * t.shape[3]
        S == t.shape[4] * t.shape[5]
        C == t.shape[6]
        p == Permute(View(t, <<B, G, S, 1, nh, C \div nh>>), <<3, 0, 1, 4, 2, 5>>)
    IN  View(p, <<B, G, nh, S, C \div nh>>)

\* LSA lines 121-128: (B, _h*_w, heads, ws*ws, hd) -> (B, N, C)
LSAMerge(t, B, h_, w_, ws, C, H, W) ==
    LET a == View(Transpose(t, 2, 3), <<B, h_, w_, ws, ws, C>>)
        g == View(Transpose(a, 2, 3), <<B, h_ * ws, w_ * ws, C>>)
        c == IF h_ * ws > H \/ w_ * ws > W THEN CropHW(g, H, W) ELSE g
    IN  Linear(View(c, <<B, H * W, C>>), C)

\* GSA line 187 (and 201-202): (B, n, C) -> (B, heads, n, C//heads)
GSAHeads(t, nh) ==
    Permute(View(t, <<t.shape[1], t.shape[2], nh, t.shape[3] \div nh>>), <<0, 2, 1, 3>>)

\* GSA lines 190-195: (B, Hp*Wp, c) -> (B, c, Hp, Wp) -> conv -> (B, nk, C)
GSASubsample(t, Hp, Wp, C, sr) ==
    LET g == View(Permute(t, <<0, 2, 1>>), <<t.shape[1], t.shape[3], Hp, Wp>>)
        cv == ConvBlocks(g, C, sr)
    IN  Permute(View(cv, <<t.shape[1], C, -1>>), <<0, 2, 1>>)

\* GSA lines 208-214: (B, heads, Hp*Wp, hd) -> (B, N, C)
GSAMerge(t, B, Hp, Wp, C, H, W) ==
    LET g == View(Transpose(t, 1, 2), <<B, Hp, Wp, C>>)
        c == IF Hp > H \/ Wp > W THEN CropHW(g, H, W) ELSE g
    IN  Linear(View(c, <<B, H * W, C>>), C)

\* a module to construct: LSA with a window size, GSA with a subsample ratio,
\* Block with both
AttnModule(cls, dim, nh, w, sr) ==
    [class |-> cls, attn |-> "none", attrs |-> {},
     cfg |-> [dim |-> dim, num_heads |-> nh, ws |-> w, sr_ratio |-> sr, vert_c_dim |-> 1]]

\* a forward call: the module, B sequences over an H x W grid, the context
AttnCall(md, B, H, W, ctx) ==
    [self |-> md, in |-> TokenIds(B, H * W, md.cfg.dim), size |-> <<H, W>>, context |-> ctx]

ContextShapes(H, W) ==
    { <<cb, CtxChannels, H, W>> : cb \in 1..3 }
    \cup { <<1, 128, H, W>>, <<2, 384, H, W>>, <<2, CtxChannels, 1, 3>>, <<>> }

\* every window size and subsample ratio on every grid, with a fitting context
AttnCallsGrid ==
    { AttnCall(AttnModule(cls, 2, nh, IF cls = "LSA" THEN r ELSE 1,
                          IF cls = "GSA" THEN r ELSE 1), B, H, W, <<1, CtxChannels, H, W>>) :
        cls \in {"LSA", "GSA"}, nh \in {1, 2}, r \in 1..MaxWs, B \in {1, 2},
        H \in 1..MaxGrid, W \in 1..MaxGrid }

\* every context on two grids
AttnCallsContext ==
    UNION { { AttnCall(AttnModule(cls, 2, 1, 2, 2), B, 1, W, ctx) :
                cls \in {"LSA", "GSA"}, B \in 1..3, ctx \in ContextShapes(1, W) } :
            W \in {2, 3} }

\* Block's choice of the attention class, and head counts that do not divide
AttnCallsBlock ==
    { AttnCall(AttnModule(cls, dim, 2, w, sr), 1, 2, 2, <<1, CtxChannels, 2, 2>>) :
        cls \in {"LSA", "GSA", "Block"}, dim \in {2, 3}, w \in 1..MaxWs, sr \in {1, 2} }

\* grids with no rows or no columns: the context empty as the grid is, of one
\* cell, or None
AttnCallsEmpty ==
    UNION { { AttnCall(AttnModule(cls, 2, 1, IF cls = "LSA" THEN r ELSE 1,
                                  IF cls = "GSA" THEN r ELSE 1), B, sz[1], sz[2], ctx) :
                cls \in {"LSA", "GSA"}, r \in 2..MaxWs, B \in {1, 2},
                ctx \in { <<1, CtxChannels, sz[1], sz[2]>>, <<1, CtxChannels, 1, 1>>, <<>> } } :
            sz \in { <<0, 0>>, <<0, 2>>, <<MaxGrid, 0>> } }

AttnInit ==
    /\ apc = "new"
    /\ \E c \in AttnCallsGrid \cup AttnCallsContext \cup AttnCallsBlock \cup AttnCallsEmpty :
          /\ a_self = c.self
          /\ a_in = c.in
          /\ a_size = c.size
          /\ a_context = c.context
    /\ context = <<>>
    /\ x = NoTensor
    /\ x_qk = NoTensor
    /\ attn_q = NoTensor
    /\ attn_kv = NoTensor

AttnIdle ==
    /\ apc = "off"
    /\ a_self = [class |-> "none", attn |-> "none", attrs |-> {}, cfg |-> <<>>]
    /\ a_in = NoTensor
    /\ a_size = <<>>
    /\ a_context = <<>>
    /\ context = <<>>
    /\ x = NoTensor
    /\ x_qk = NoTensor
    /\ attn_q = NoTensor
    /\ attn_kv = NoTensor

\* __init__ of the attention module: directly, or by Block, which takes GSA
\* for ws == 1 and LSA otherwise
AttnConstruct ==
    /\ apc = "new"
    /\ LET cf == a_self.cfg
           cls == IF a_self.class = "Block" THEN BlockAttnClass(cf.ws) ELSE a_self.class
       IN  IF cls = "LSA"
           THEN IF LSAInitOk(cf.dim, cf.num_heads, cf.ws)
                THEN /\ a_self' = [a_self EXCEPT !.attn = "LSA", !.attrs = {"ws"}]
                     /\ apc' = "built"
                ELSE /\ apc' = "ctor_raised"
                     /\ UNCHANGED a_self
           ELSE IF GSAInitOk(cf.dim, cf.num_heads)
                THEN /\ a_self' = [a_self EXCEPT !.attn = "GSA",
                                       !.attrs = {"sr_ratio"} \cup GSAAttrs(cf.sr_ratio)]
                     /\ apc' = "built"
                ELSE /\ apc' = "ctor_raised"
                     /\ UNCHANGED a_self
    /\ UNCHANGED <<a_in, a_size, a_context, context, x, x_qk, attn_q, attn_kv>>
    /\ OnlyAttn

\* the window size, or subsample ratio, the module pads the grid to
AttnStride == IF a_self.attn = "LSA" THEN a_self.cfg.ws ELSE a_self.cfg.sr_ratio

\* lines 81-88 (LSA), 161-167 (GSA): tile, regroup and project the context
AttnContext ==
    /\ apc = "built"
    /\ LET cs == ContextShape(a_context, a_in.shape[1], a_size[1], a_size[2],
                              a_self.cfg.vert_c_dim)
       IN  IF cs = <<"error">>
           THEN /\ apc' = "raised"
                /\ UNCHANGED context
           ELSE /\ apc' = "context"
                /\ context' = cs
    /\ UNCHANGED <<a_self, a_in, a_size, a_context, x, x_qk, attn_q, attn_kv>>
    /\ OnlyAttn

\* lines 90-102 (LSA): view as a grid, append the context, pad, cut into
\* windows; lines 168-180 (GSA): the same up to the padding, then flatten
AttnSplit ==
    /\ apc = "context"
    /\ LET B == a_in.shape[1]
           C == a_in.shape[3]
           H == a_size[1]
           W == a_size[2]
           st == AttnStride
           g == View(a_in, <<B, H, W, C>>)
           gq == CatContext(g, a_self.cfg.vert_c_dim)
           pg == PadHW(g, PadUpTo(W, st), PadUpTo(H, st))
           pq == PadHW(gq, PadUpTo(W, st), PadUpTo(H, st))
       IN  IF ~ViewOk(a_in, <<B, H, W, C>>)
           THEN /\ apc' = "raised"
                /\ UNCHANGED <<x, x_qk>>
           ELSE /\ apc' = "split"
                /\ IF a_self.attn = "LSA"
                   THEN /\ x' = LSAWindows(pg, st)
                        /\ x_qk' = LSAWindows(pq, st)
                   ELSE /\ x' = View(pg, <<B, -1, C>>)
                        /\ x_qk' = View(pq, <<B, -1, C + a_self.cfg.vert_c_dim>>)
    /\ UNCHANGED <<a_self, a_in, a_size, a_context, context, attn_q, attn_kv>>
    /\ OnlyAttn

\* lines 104-120 (LSA), 187-206 (GSA): q, k, v and the attention itself
AttnAttend ==
    /\ apc = "split"
    /\ LET C == a_in.shape[3]
           nh == a_self.cfg.num_heads
           st == AttnStride
           Hp == a_size[1] + PadUpTo(a_size[1], st)
           Wp == a_size[2] + PadUpTo(a_size[2], st)
       IN  IF a_self.attn = "LSA"
           THEN LET v == LSAHeads(Linear(x, C), nh)
                    q == LSAHeads(Linear(x_qk, C), nh)
                    kk == LSAHeads(Linear(x_qk, C), nh)
                IN  /\ attn_q' = AttendQ(q)
                    /\ attn_kv' = AttendKV(q, kk, v)
                    /\ apc' = "attended"
           ELSE IF "sr_key" \notin a_self.attrs
           THEN /\ apc' = "raised"
                /\ UNCHANGED <<attn_q, attn_kv>>
           ELSE LET q == GSAHeads(Linear(x_qk, C), nh)
                    xs == GSASubsample(x, Hp, Wp, C, st)
                    xqs == GSASubsample(x_qk, Hp, Wp, C, st)
                    kk == GSAHeads(Linear(xqs, C), nh)
                    v == GSAHeads(Linear(xs, C), nh)
                IN  /\ attn_q' = AttendQ(q)
                    /\ attn_kv' = AttendKV(q, kk, v)
                    /\ apc' = "attended"
    /\ UNCHANGED <<a_self, a_in, a_size, a_context, context, x, x_qk>>
    /\ OnlyAttn

\* lines 121-128 (LSA), 208-216 (GSA): back to (B, N, C), crop, project
AttnMerge ==
    /\ apc = "attended"
    /\ LET B == a_in.shape[1]
           C == a_in.shape[3]
           H == a_size[1]
           W == a_size[2]
           st == AttnStride
           Hp == H + PadUpTo(H, st)
           Wp == W + PadUpTo(W, st)
       IN  IF a_self.attn = "LSA"
           THEN /\ attn_q' = LSAMerge(attn_q, B, Hp \div st, Wp \div st, st, C, H, W)
                /\ attn_kv' = LSAMerge(attn_kv, B, Hp \div st, Wp \div st, st, C, H, W)
           ELSE /\ attn_q' = GSAMerge(attn_q, B, Hp, Wp, C, H, W)
                /\ attn_kv' = GSAMerge(attn_kv, B, Hp, Wp, C, H, W)
    /\ apc' = "returned"
    /\ UNCHANGED <<a_self, a_in, a_size, a_context, context, x, x_qk>>
    /\ OnlyAttn

NextAttn == AttnConstruct \/ AttnContext \/ AttnSplit \/ AttnAttend \/ AttnMerge

(***************************************************************************)
(* Claims about the spatial attention, checked under SpecAttn.             *)
(***************************************************************************)
\* the numbers of the tokens of the sequence that token number tk is in
SequenceOf(tk, N) == {((tk - 1) \div N) * N + n : n \in 1..N}

\* every element of the output is computed for the token at its own position
\* from every token of that token's sequence
FullSelfAttention ==
    LET N == a_in.shape[2]
        C == a_in.shape[3]
    IN  /\ attn_kv.shape = a_in.shape
        /\ \A k \in 1..Len(attn_kv.data) :
              LET tk == (k - 1) \div C + 1
              IN  /\ attn_q.data[k] = {tk}
                  /\ attn_kv.data[k] = SequenceOf(tk, N)

\* a call whose arguments fit: heads dividing dim, a context of 256 channels
\* on the same grid whose batch size divides B
AttnFitCall ==
    /\ a_self.cfg.dim % a_self.cfg.num_heads = 0
    /\ a_context = <<a_context[1], CtxChannels, a_size[1], a_size[2]>>
    /\ a_in.shape[1] % a_context[1] = 0

\* C4: local-window attention with window size 1 and global-subsampled
\* attention with subsample ratio 1 can both be constructed and run, and each
\* computes full unrestricted self-attention over the sequence.
C4_UnitWindowIsFullAttention ==
    ( /\ a_context # <<>>
      /\ AttnFitCall
      /\ \/ a_self.class = "LSA" /\ a_self.cfg.ws = 1
         \/ a_self.class = "GSA" /\ a_self.cfg.sr_ratio = 1 )
    => /\ apc \notin {"ctor_raised", "raised"}
       /\ apc = "returned" => FullSelfAttention

\* C10: in both variants, when the attention batch size B is not an exact
\* multiple of the context's batch size, forward does not get past the lines
\* that tile and regroup the context, and returns nothing.
C10_NonMultipleContextRejected ==
    (a_context # <<>> /\ a_in.shape[1] % a_context[1] # 0)
      => apc \notin {"context", "split", "attended", "returned"}

(***************************************************************************)
(* PatchEmbed, encoder.py 12-55: the tokenizer of one cost map.            *)
(*                                                                         *)
(*     tpc        position in forward: "call", "padded", "projected",      *)
(*                "returned", "raised"                                     *)
(*     pe_self    the module: in_chans and embed_dim of __init__           *)
(*     pe_in      forward's argument x, of shape (B, C, H, W); its element *)
(*                at raster position k carries the number k + 1            *)
(*     pe_x       forward's local x; once a convolution has been applied   *)
(*                only its shape is followed                               *)
(*     pe_pad     (pad_l, pad_r, pad_t, pad_b) of lines 35-37              *)
(*     pe_stage   how many of the three convolutions of self.proj have run *)
(*     out_size   forward's local of that name                             *)
(*     pe_ret     the token tensor forward returns                         *)
(*                                                                         *)
(* coords_grid is bound by the package core.utils and                      *)
(* LinearPositionEmbeddingSine by core.attention; of the first the shape   *)
(* (batch, 2, ht, wd) built at utils.py 103-110 is taken, of the second    *)
(* that it encodes each coordinate pair into a vector of the width asked   *)
(* for.                                                                    *)
(***************************************************************************)
\* line 15: self.patch_size
PatchSize == 8

\* F.pad(x, (pl, pr, pt, pb)) of a (B, C, H, W) tensor, constant mode, value 0:
\* the last axis is padded by (pl, pr), the one before by (pt, pb)
ZeroPad(t, pl, pr, pt, pb) ==
    LET H == t.shape[3]
        W == t.shape[4]
        shp == <<t.shape[1], t.shape[2], H + pt + pb, W + pl + pr>>
        st == Strides(shp) \o <<>>
    IN  [shape |-> shp,
         data |-> IF t.data = <<>> THEN <<>>
                  ELSE [k \in 1..Prod(shp) |->
                          LET ix == IndexOf(k, st, shp)
                              i == ix[3] - pt
                              j == ix[4] - pl
                          IN  IF i >= 0 /\ i < H /\ j >= 0 /\ j < W
                              THEN At(t, <<ix[1], ix[2], i, j>>) ELSE 0] \o <<>>]

\* lines 35-37
PatchPads(H, W) ==
    <<0, (PatchSize - (W % PatchSize)) % PatchSize,
      0, (PatchSize - (H % PatchSize)) % PatchSize>>

\* nn.Conv2d(kernel_size=k, stride=s, padding=p): the size of one spatial axis
ConvOutUnpadded(n, k, s, p) == (n - k) \div s + 1

ConvOut(n, k, s, p) == (n + 2 * p - k) \div s + 1

\* nn.Conv2d(cin, cout, kernel_size=k, stride=s, padding=p) on a (B, C, H, W)
\* shape: raises when C is not cin or the kernel is larger than the padded input
Conv2dShapeAnySize(shape, cin, cout, k, s, p) ==
    IF Len(shape) # 4 THEN <<"error">>
    ELSE IF shape[2] # cin THEN <<"error">>
    ELSE <<shape[1], cout, ConvOut(shape[3], k, s, p), ConvOut(shape[4], k, s, p)>>

Conv2dShape(shape, cin, cout, k, s, p) ==
    IF Len(shape) # 4 THEN <<"error">>
    ELSE IF shape[2] # cin \/ shape[3] + 2 * p < k \/ shape[4] + 2 * p < k
    THEN <<"error">>
    ELSE <<shape[1], cout, ConvOut(shape[3], k, s, p), ConvOut(shape[4], k, s, p)>>

\* lines 17-23: (in, out) channels of the three convolutions of self.proj
ProjChannels(in_chans, embed_dim) ==
    << <<in_chans, embed_dim \div 4>>,
       <<embed_dim \div 4, embed_dim \div 2>>,
       <<embed_dim \div 2, embed_dim>> >>

\* stage n of self.proj: Conv2d(kernel_size=6, stride=2, padding=2) (the ReLU
\* between two stages keeps the shape)
ProjStage(shape, in_chans, embed_dim, n) ==
    LET ch == ProjChannels(in_chans, embed_dim)[n]
    IN  Conv2dShape(shape, ch[1], ch[2], 6, 2, 2)

\* coords_grid(batch, ht, wd, ...)
CoordsGridShape(batch, ht, wd) == <<batch, 2, ht, wd>>

\* LinearPositionEmbeddingSine(coords, dim) of (B, n, 2) coordinates
PosEncShape(shape, dim) ==
    IF Len(shape) = 3 /\ shape[3] = 2 THEN <<shape[1], shape[2], dim>> ELSE <<"error">>

\* torch.cat([a, b], dim=1) of two shapes
CatDim1(a, b) ==
    IF Len(a) = Len(b) /\ Len(a) >= 2 /\ a[1] = b[1]
       /\ SubSeq(a, 3, Len(a)) = SubSeq(b, 3, Len(b))
    THEN <<a[1], a[2] + b[2]>> \o SubSeq(a, 3, Len(a))
    ELSE <<"error">>

\* lines 43-53: from the projected x (B, embed_dim, h, w) to the tokens
\* (B, h*w, 2*embed_dim)
PatchTokens(shape, size, embed_dim) ==
    LET B == shape[1]
        coords == CoordsGridShape(B, size[1], size[2])
        pc == <<B, Prod(coords) \div (B * 2), 2>>
        enc == PosEncShape(pc, embed_dim)
        pev == IF enc = <<"error">> THEN <<"error">>
               ELSE InferSize(Prod(enc), <<B, -1, size[1], size[2]>>)
        x_pe == IF pev = <<"error">> THEN <<"error">> ELSE CatDim1(shape, pev)
        ffn == IF x_pe = <<"error">> THEN <<"error">>
               ELSE Conv2dShape(Conv2dShape(x_pe, 2 * embed_dim, 2 * embed_dim, 1, 1, 0),
                                2 * embed_dim, 2 * embed_dim, 1, 1, 0)
    IN  IF ffn = <<"error">> THEN <<"error">>
        ELSE <<ffn[1], ffn[3] * ffn[4], ffn[2]>>

\* forward's argument: one map of C channels whose elements are numbered
MapIds(C, H, W) ==
    [shape |-> <<1, C, H, W>>, data |-> [k \in 1..(C * H * W) |-> k] \o <<>>]

PatchInit ==
    /\ tpc = "call"
    /\ \E in_chans \in {1, 2}, H \in 0..MaxMap, W \in 0..MaxMap :
          /\ pe_self = [in_chans |-> in_chans, embed_dim |-> 4]
          /\ pe_in = MapIds(1, H, W)
    /\ pe_x = NoTensor
    /\ pe_pad = <<>>
    /\ pe_stage = 0
    /\ out_size = <<>>
    /\ pe_ret = NoTensor

PatchIdle ==
    /\ tpc = "off"
    /\ pe_self = [in_chans |-> 0, embed_dim |-> 0]
    /\ pe_in = NoTensor
    /\ pe_x = NoTensor
    /\ pe_pad = <<>>
    /\ pe_stage = 0
    /\ out_size = <<>>
    /\ pe_ret = NoTensor

\* lines 33-38
PatchPad ==
    /\ tpc = "call"
    /\ LET pads == PatchPads(pe_in.shape[3], pe_in.shape[4])
       IN  /\ pe_pad' = pads
           /\ pe_x' = ZeroPad(pe_in, pads[1], pads[2], pads[3], pads[4])
    /\ tpc' = "padded"
    /\ UNCHANGED <<pe_self, pe_in, pe_stage, out_size, pe_ret>>
    /\ OnlyPatch

\* line 40, one convolution of self.proj at a time; after the third, line 41
PatchProj ==
    /\ tpc = "padded"
    /\ LET shp == ProjStage(pe_x.shape, pe_self.in_chans, pe_self.embed_dim, pe_stage + 1)
       IN  IF shp = <<"error">>
           THEN /\ tpc' = "raised"
                /\ UNCHANGED <<pe_x, pe_stage, out_size>>
           ELSE /\ pe_x' = [shape |-> shp, data |-> <<>>]
                /\ pe_stage' = pe_stage + 1
                /\ IF pe_stage + 1 = 3
                   THEN /\ tpc' = "projected"
                        /\ out_size' = SubSeq(shp, 3, 4)
                   ELSE UNCHANGED <<tpc, out_size>>
    /\ UNCHANGED <<pe_self, pe_in, pe_pad, pe_ret>>
    /\ OnlyPatch

\* lines 43-55
PatchCoord ==
    /\ tpc = "projected"
    /\ LET shp == PatchTokens(pe_x.shape, out_size, pe_self.embed_dim)
       IN  IF shp = <<"error">>
           THEN /\ tpc' = "raised"
                /\ UNCHANGED pe_ret
           ELSE /\ tpc' = "returned"
                /\ pe_ret' = [shape |-> shp, data |-> <<>>]
    /\ UNCHANGED <<pe_self, pe_in, pe_x, pe_pad, pe_stage, out_size>>
    /\ OnlyPatch

NextPatch == PatchPad \/ PatchProj \/ PatchCoord

(***************************************************************************)
(* Claims about PatchEmbed, checked under SpecPatch.                       *)
(***************************************************************************)
CeilDiv(n, d) == (n + d - 1) \div d

\* the padded map holds the input at the same positions and zeros elsewhere
PaddedRightBottom ==
    LET H == pe_in.shape[3]
        W == pe_in.shape[4]
    IN  /\ pe_x.shape = <<1, 1, H + pe_pad[4], W + pe_pad[2]>>
        /\ \A i \in 0..(pe_x.shape[3] - 1), j \in 0..(pe_x.shape[4] - 1) :
              At(pe_x, <<0, 0, i, j>>) =
                 IF i < H /\ j < W THEN At(pe_in, <<0, 0, i, j>>) ELSE 0

AttnEmptyGrid == a_size[1] = 0 \/ a_size[2] = 0
PatchEmptyMap == pe_in.shape[3] = 0 \/ pe_in.shape[4] = 0

\* the window size or subsample ratio exceeds the grid's height or width
AttnStrideExceedsGrid ==
    LET st == IF a_self.class = "LSA" THEN a_self.cfg.ws ELSE a_self.cfg.sr_ratio
    IN  /\ a_self.class \in {"LSA", "GSA"}
        /\ st > 1
        /\ a_size[1] >= 1 /\ a_size[2] >= 1
        /\ st > a_size[1] \/ st > a_size[2]

CellToken(b, i, j, H, W) == b * H * W + i * W + j + 1

\* the tokens of the cells of the H x W grid that lie in the window of cell (i, j)
WindowTokens(b, i, j, H, W, ws) ==
    { CellToken(b, i2, j2, H, W) :
        i2 \in {r \in 0..(H - 1) : r \div ws = i \div ws},
        j2 \in {r \in 0..(W - 1) : r \div ws = j \div ws} }

\* t, of shape (B, _h, _w, ws, ws, ch), holds cell (i, j) of the padded grid in
\* window (i div ws, j div ws) at offset (i mod ws, j mod ws), and nothing in
\* the cells right of and below the H x W grid
InWindows(t, B, H, W, ws, ch) ==
    LET Hp == CeilDiv(H, ws) * ws
        Wp == CeilDiv(W, ws) * ws
    IN  /\ t.shape = <<B, Hp \div ws, Wp \div ws, ws, ws, ch>>
        /\ \A b \in 0..(B - 1), i \in 0..(Hp - 1), j \in 0..(Wp - 1), c \in 0..(ch - 1) :
              At(t, <<b, i \div ws, j \div ws, i % ws, j % ws, c>>) =
                 IF i < H /\ j < W THEN {CellToken(b, i, j, H, W)} ELSE {}

NumHeads == 8

\* lines 69-70: ws and sr_ratio of VerticalSelfAttentionLayer
VertWs == 7
VertSr == 4

IsShape(shape) == Len(shape) >= 2

\* nn.Linear(nin, nout) and nn.LayerNorm(n) on a shape
LinearShape(shape, nin, nout) ==
    IF IsShape(shape) /\ Last(shape) = nin THEN Front(shape) \o <<nout>> ELSE <<"error">>

LayerNormShape(shape, n) ==
    IF IsShape(shape) /\ Last(shape) = n THEN shape ELSE <<"error">>

\* a + b: torch's broadcasting of two shapes
BroadcastShape(a, b) ==
    IF ~IsShape(a) \/ ~IsShape(b) THEN <<"error">>
    ELSE LET n == IF Len(a) > Len(b) THEN Len(a) ELSE Len(b)
             pa == [i \in 1..n |-> IF i > n - Len(a) THEN a[i - (n - Len(a))] ELSE 1]
             pb == [i \in 1..n |-> IF i > n - Len(b) THEN b[i - (n - Len(b))] ELSE 1]
         IN  IF \A i \in 1..n : pa[i] = pb[i] \/ pa[i] = 1 \/ pb[i] = 1
             THEN [i \in 1..n |-> IF pa[i] = 1 THEN pb[i] ELSE pa[i]] \o <<>>
             ELSE <<"error">>

\* the two-layer feed-forward block of lines 116-122 / 172-178 (and timm's Mlp)
FfnShape(shape, dim) == LinearShape(LinearShape(shape, dim, dim), dim, dim)

\* MultiHeadAttention(q, k, v): one vector per query
MultiHeadAttnShape(q, k, v) ==
    IF IsShape(q) /\ IsShape(k) /\ IsShape(v) /\ Len(q) = 3 /\ Len(k) = 3 /\ Len(v) = 3
       /\ q[1] = k[1] /\ k[1] = v[1] /\ k[2] = v[2] /\ q[3] = k[3]
    THEN <<q[1], q[2], v[3]>> ELSE <<"error">>

\* BroadMultiHeadAttention(q, k, v): the (1, T, D) queries serve every batch
\* item of the keys
BroadAttnShape(q, k, v) ==
    IF IsShape(q) /\ IsShape(k) /\ IsShape(v) /\ Len(q) = 3 /\ Len(k) = 3 /\ Len(v) = 3
       /\ q[1] = 1 /\ k[1] = v[1] /\ k[2] = v[2] /\ q[3] = k[3]
    THEN <<k[1], q[2], v[3]>> ELSE <<"error">>

\* SelfAttentionLayer.__init__, line 100; CrossAttentionLayer.__init__, 153-154
SelfInitOk(dim) == dim % NumHeads = 0
CrossInitOk(qk_dim, v_dim) == qk_dim % NumHeads = 0 /\ v_dim % NumHeads = 0

\* CrossAttentionLayer.forward, lines 184-191
CrossAttnShape(query, tgt_token, dim, tgt_dim) ==
    LET q == LinearShape(LayerNormShape(query, dim), dim, dim)
        k == LinearShape(tgt_token, tgt_dim, dim)
        v == LinearShape(tgt_token, tgt_dim, dim)
        a == LinearShape(BroadAttnShape(q, k, v), dim, dim)
        x1 == BroadcastShape(query, a)
    IN  BroadcastShape(x1, FfnShape(LayerNormShape(x1, dim), dim))

\* SelfAttentionLayer.forward, lines 128-140
SelfAttnShape(shape, dim) ==
    LET n1 == LayerNormShape(shape, dim)
        q == LinearShape(n1, dim, dim)
        a == LinearShape(MultiHeadAttnShape(q, q, q), dim, dim)
        x1 == BroadcastShape(shape, a)
    IN  BroadcastShape(x1, FfnShape(LayerNormShape(x1, dim), dim))

\* forward of LSA (twins.py 81-128) or of GSA (161-216) on a shape, for a grid
\* with H >= 1 and W >= 1: the context lines, the view as a grid, q / k / v
\* of width dim, and the reshape back to (B, N, C)
AttnForwardShape(cls, shape, size, ctx, dim, vc, sr) ==
    IF ~IsShape(shape) \/ Len(shape) # 3 THEN <<"error">>
    ELSE LET B == shape[1]
             cs == ContextShape(ctx, B, size[1], size[2], vc)
         IN  IF cs = <<"error">> THEN <<"error">>
             ELSE IF InferSize(Prod(shape), <<B, size[1], size[2], shape[3]>>) = <<"error">>
             THEN <<"error">>
             ELSE IF shape[3] # dim THEN <<"error">>
             ELSE IF cls = "GSA" /\ "sr_key" \notin GSAAttrs(sr) THEN <<"error">>
             ELSE shape

\* Block.forward, twins.py 243-246
BlockShape(ws, shape, size, ctx, dim, vc, sr) ==
    LET a == AttnForwardShape(BlockAttnClass(ws), LayerNormShape(shape, dim), size, ctx,
                              dim, vc, sr)
        x1 == BroadcastShape(shape, a)
    IN  BroadcastShape(x1, FfnShape(LayerNormShape(x1, dim), dim))

\* VerticalSelfAttentionLayer.forward, lines 84-87: local_block (ws = 7), then
\* global_block (ws = 1)
VertLayerShape(shape, size, ctx, dim, vc) ==
    BlockShape(1, BlockShape(VertWs, shape, size, ctx, dim, vc, VertSr), size, ctx,
               dim, vc, VertSr)

\* PatchEmbed.forward on a shape: the tokens' shape and out_size
PatchEmbedShape(shape, in_chans, embed_dim) ==
    IF Len(shape) # 4 THEN [x |-> <<"error">>, size |-> <<>>]
    ELSE LET pads == PatchPads(shape[3], shape[4])
             padded == <<shape[1], shape[2], shape[3] + pads[3] + pads[4],
                         shape[4] + pads[1] + pads[2]>>
             p1 == ProjStage(padded, in_chans, embed_dim, 1)
             p2 == ProjStage(p1, in_chans, embed_dim, 2)
             p3 == ProjStage(p2, in_chans, embed_dim, 3)
         IN  IF p3 = <<"error">> THEN [x |-> <<"error">>, size |-> <<>>]
             ELSE [x |-> PatchTokens(p3, SubSeq(p3, 3, 4), embed_dim),
                   size |-> SubSeq(p3, 3, 4)]

\* CostPerceiverEncoder.__init__, lines 202-213, under MemoryEncoder.__init__
EncInitOk(c) ==
    /\ CrossInitOk(c.cost_latent_dim, c.cost_latent_dim)
    /\ c.encoder_depth > 0 =>
          /\ SelfInitOk(c.cost_latent_dim)
          /\ LSAInitOk(c.cost_latent_dim, NumHeads, VertWs)
          /\ GSAInitOk(c.cost_latent_dim, NumHeads)

\* x[lo:hi] along the first axis
Rows(t, lo, hi) ==
    LET n == t.shape[1]
        a == IF lo > n THEN n ELSE lo
        b == IF hi > n THEN n ELSE IF hi < a THEN a ELSE hi
        row == Prod(Tail(t.shape))
    IN  [shape |-> <<b - a>> \o Tail(t.shape),
         data |-> IF t.data = <<>> THEN <<>> ELSE SubSeq(t.data, a * row + 1, b * row)]

\* line 217
CostMapsNoPermute(cv, hn) ==
    View(cv, <<cv.shape[1] * cv.shape[3] * cv.shape[4], hn, cv.shape[5], cv.shape[6]>>)

CostMaps(cv, hn) ==
    View(Permute(cv, <<0, 2, 3, 1, 4, 5>>),
         <<cv.shape[1] * cv.shape[3] * cv.shape[4], hn, cv.shape[5], cv.shape[6]>>)

\* line 227: (B*N, T, D) -> (B, N, T, D) -> (B, T, N, D) -> (B*T, N, D)
ToGridOk(t, B, N, T) == ViewOk(t, <<B, N, T, -1>>)

ToGridNoPermute(t, B, N, T) ==
    View(View(t, <<B, N, T, -1>>), <<B * T, N, -1>>)

ToGrid(t, B, N, T) ==
    View(Permute(View(t, <<B, N, T, -1>>), <<0, 2, 1, 3>>), <<B * T, N, -1>>)

\* line 229: (B*T, N, D) -> (B, T, N, D) -> (B, N, T, D) -> (B*N, T, D)
FromGridOk(t, B, N, T) == ViewOk(t, <<B, T, N, -1>>)

FromGridKept(t, B, N, T) == t

FromGrid(t, B, N, T) ==
    View(Permute(View(t, <<B, T, N, -1>>), <<0, 2, 1, 3>>), <<B * N, T, -1>>)

\* data[key] = value
DictSet(d, key, value) ==
    [kk \in DOMAIN d \cup {key} |-> IF kk = key THEN value ELSE d[kk]]

Shaped(shape) == [shape |-> shape, data |-> <<>>]

\* line 221: the latent tokens input_layer returns, (rows, T, D); every
\* element carries the number of its token, counted row by row
Slots(shape) ==
    [shape |-> shape,
     data |-> [k \in 1..Prod(shape) |-> (k - 1) \div Last(shape) + 1] \o <<>>]

\* the result, of shape shp, of a layer that computes the output for a token
\* at the token's own position (lines 226, 228, 231)
SlotWise(t, shp) == [shape |-> shp, data |-> IF shp = t.shape THEN t.data ELSE <<>>]

\* a configuration: the fields of cfg the encoder reads
EncCfg(hn, T, D, E, depth, vc, c) ==
    [cost_heads_num |-> hn, cost_latent_token_num |-> T, cost_latent_dim |-> D,
     cost_latent_input_dim |-> E, encoder_depth |-> depth, vert_c_dim |-> vc,
     encoder_latent_dim |-> c]

\* a call of MemoryEncoder.forward on the feature maps fs of both images
MemoryCall(c, fs, ctx, d) ==
    [entry |-> "MemoryEncoder", cfg |-> c, feats |-> fs, cost_volume |-> NoTensor,
     context |-> ctx, data |-> d]

\* a call of CostPerceiverEncoder.forward on a cost volume
CostCall(c, cv, ctx) ==
    [entry |-> "CostPerceiverEncoder", cfg |-> c, feats |-> NoTensor, cost_volume |-> cv,
     context |-> ctx, data |-> <<>>]

\* the dict FlowFormer.forward passes (transformer.py 37), and one that
\* already has entries
DataDicts ==
    { <<>>,
      [kk \in {"flow_init", "cost_maps"} |-> IF kk = "flow_init" THEN <<0, 0>> ELSE NoTensor] }

\* feature maps with given elements, every depth, a context that fits
EncCallsTracked ==
    { MemoryCall(EncCfg(hn, T, 8, 4, depth, 1, c), Ramp(<<2, c, ht, wd>>, 0),
                 <<1, CtxChannels, ht, wd>>, d) :
        hn \in {1, 2}, T \in {1, 2}, depth \in 0..MaxDepth, c \in {2, 4},
        ht \in 1..MaxHW, wd \in 1..MaxHW, d \in DataDicts }

\* head counts and attention widths that divide and that do not
EncCallsConfig ==
    { MemoryCall(EncCfg(hn, 1, D, 4, depth, 1, c), Ramp(<<2, c, 1, 2>>, 0),
                 <<1, CtxChannels, 1, 2>>, <<>>) :
        hn \in {1, 2, 3}, D \in {8, 12, 16}, depth \in {0, 1}, c \in {2, 3, 4} }

\* contexts that fit and that do not
EncCallsContext ==
    { MemoryCall(EncCfg(1, T, 8, 4, depth, 1, 2), Ramp(<<2, 2, 1, 2>>, 0), ctx, <<>>) :
        T \in {1, 2}, depth \in {0, 1},
        ctx \in { <<>>, <<1, 128, 1, 2>>, <<2, CtxChannels, 1, 2>>,
                  <<3, CtxChannels, 1, 2>>, <<1, CtxChannels, 2, 2>> } }

\* cost volumes of any grid and map size
EncCallsCost ==
    { CostCall(EncCfg(hn, T, 8, 4, depth, 1, hn),
               Shaped(<<B, hn, H1, W1, H2, W2>>), <<1, CtxChannels, H1, W1>>) :
        B \in {1, 2}, hn \in {1, 2}, T \in {1, 2}, depth \in 0..MaxDepth,
        H1 \in 1..MaxGrid, W1 \in 1..MaxGrid, H2 \in {1, 8, 9}, W2 \in {1, 8, 9} }

\* feature maps (1, 64, 16, 16), 4 heads, 8 latent tokens of dimension 32,
\* depth 2, with a context of 128 or of 256 channels
EncCallsScenario ==
    { MemoryCall(EncCfg(4, 8, 32, 64, 2, 64, 64), Shaped(<<2, 64, 16, 16>>),
                 <<1, cc, 16, 16>>, <<>>) : cc \in {128, CtxChannels} }

EncInit ==
    /\ epc = "new"
    /\ \E c \in EncCallsTracked \cup EncCallsConfig \cup EncCallsContext
                  \cup EncCallsCost \cup EncCallsScenario :
          /\ entry = c.entry
          /\ cfg = c.cfg
          /\ feats = c.feats
          /\ cost_volume = c.cost_volume
          /\ enc_context = c.context
          /\ data = c.data
          /\ data_in = c.data
    /\ cost_maps = NoTensor
    /\ h3w3 = <<>>
    /\ enc_x = NoTensor
    /\ short_cut = NoTensor
    /\ layer_idx = 0

EncIdle ==
    /\ epc = "off"
    /\ entry = "none"
    /\ cfg = <<>>
    /\ feats = NoTensor
    /\ cost_volume = NoTensor
    /\ enc_context = <<>>
    /\ data = <<>>
    /\ data_in = <<>>
    /\ cost_maps = NoTensor
    /\ h3w3 = <<>>
    /\ enc_x = NoTensor
    /\ short_cut = NoTensor
    /\ layer_idx = 0

\* MemoryEncoder.__init__, lines 236-242, with CostPerceiverEncoder.__init__
EncConstruct ==
    /\ epc = "new"
    /\ epc' = IF EncInitOk(cfg) THEN "constructed" ELSE "ctor_raised"
    /\ UNCHANGED <<entry, cfg, feats, enc_context, cost_volume, cost_maps, h3w3, enc_x,
                   short_cut, layer_idx, data, data_in>>
    /\ UNCHANGED corrVars
    /\ OnlyEnc

\* MemoryEncoder.forward, lines 273-281, up to the call of corr; or the call
\* of CostPerceiverEncoder.forward on a cost volume
EncCall ==
    /\ epc = "constructed"
    /\ IF entry = "MemoryEncoder"
       THEN LET B == feats.shape[1] \div 2
            IN  /\ feat_s' = Rows(feats, 0, B)
                /\ feat_t' = Rows(feats, B, feats.shape[1])
                /\ heads' = cfg.cost_heads_num
                /\ cpc' = "call"
                /\ epc' = "corr"
                /\ UNCHANGED <<fmap1, fmap2, corr_bmm, corr>>
       ELSE /\ epc' = "forward"
            /\ UNCHANGED corrVars
    /\ UNCHANGED <<entry, cfg, feats, enc_context, cost_volume, cost_maps, h3w3, enc_x,
                   short_cut, layer_idx, data, data_in>>
    /\ OnlyEnc

\* line 281: corr has returned the cost volume, or raised
EncCorrDone ==
    /\ epc = "corr"
    /\ cpc \in {"returned", "raised"}
    /\ IF cpc = "returned"
       THEN /\ cost_volume' = corr
            /\ epc' = "forward"
       ELSE /\ epc' = "raised"
            /\ UNCHANGED cost_volume
    /\ UNCHANGED <<entry, cfg, feats, enc_context, cost_maps, h3w3, enc_x,
                   short_cut, layer_idx, data, data_in>>
    /\ UNCHANGED corrVars
    /\ OnlyEnc

\* lines 216-219: regroup the volume into cost maps and tokenize them
EncTokenize ==
    /\ epc = "forward"
    /\ LET cv == cost_volume
           hn == cfg.cost_heads_num
           ok == /\ Len(cv.shape) = 6
                 /\ InferSize(Numel(cv), <<cv.shape[1] * cv.shape[3] * cv.shape[4], hn,
                                           cv.shape[5], cv.shape[6]>>) # <<"error">>
           cm == CostMaps(cv, hn)
           pe == PatchEmbedShape(cm.shape, hn, cfg.cost_latent_input_dim)
       IN  IF ok /\ pe.x # <<"error">>
           THEN /\ cost_maps' = cm
                /\ enc_x' = Shaped(pe.x)
                /\ h3w3' = pe.size
                /\ epc' = "tokens"
           ELSE /\ epc' = "raised"
                /\ UNCHANGED <<cost_maps, enc_x, h3w3>>
    /\ UNCHANGED <<entry, cfg, feats, enc_context, cost_volume, short_cut, layer_idx,
                   data, data_in>>
    /\ UNCHANGED corrVars
    /\ OnlyEnc

\* the tokens' positions are followed unless the call gives its feature maps
\* by their shape alone
TokensFollowed == entry = "CostPerceiverEncoder" \/ Tracked(feats)

\* lines 221-223: the latent tokens (1, T, D) attend to the patch tokens
EncInputLayer ==
    /\ epc = "tokens"
    /\ LET D == cfg.cost_latent_dim
           shp == CrossAttnShape(<<1, cfg.cost_latent_token_num, D>>, enc_x.shape, D,
                                 cfg.cost_latent_input_dim * 2)
       IN  IF shp = <<"error">>
           THEN /\ epc' = "raised"
                /\ UNCHANGED <<enc_x, short_cut>>
           ELSE /\ enc_x' = IF TokensFollowed THEN Slots(shp) ELSE Shaped(shp)
                /\ short_cut' = IF TokensFollowed THEN Slots(shp) ELSE Shaped(shp)
                /\ epc' = "loop"
    /\ UNCHANGED <<entry, cfg, feats, enc_context, cost_volume, cost_maps, h3w3,
                   layer_idx, data, data_in>>
    /\ UNCHANGED corrVars
    /\ OnlyEnc

\* line 226
EncLayer ==
    /\ epc = "loop"
    /\ layer_idx < cfg.encoder_depth
    /\ LET shp == SelfAttnShape(enc_x.shape, cfg.cost_latent_dim)
       IN  IF shp = <<"error">>
           THEN /\ epc' = "raised"
                /\ UNCHANGED enc_x
           ELSE /\ enc_x' = SlotWise(enc_x, shp)
                /\ epc' = "layer"
    /\ UNCHANGED <<entry, cfg, feats, enc_context, cost_volume, cost_maps, h3w3,
                   short_cut, layer_idx, data, data_in>>
    /\ UNCHANGED corrVars
    /\ OnlyEnc

\* line 227
EncToGrid ==
    /\ epc = "layer"
    /\ LET B == cost_volume.shape[1]
           N == cost_volume.shape[3] * cost_volume.shape[4]
           T == cfg.cost_latent_token_num
       IN  IF ToGridOk(enc_x, B, N, T)
           THEN /\ enc_x' = ToGrid(enc_x, B, N, T)
                /\ epc' = "grid"
           ELSE /\ epc' = "raised"
                /\ UNCHANGED enc_x
    /\ UNCHANGED <<entry, cfg, feats, enc_context, cost_volume, cost_maps, h3w3,
                   short_cut, layer_idx, data, data_in>>
    /\ UNCHANGED corrVars
    /\ OnlyEnc

\* line 228
EncVertLayer ==
    /\ epc = "grid"
    /\ LET shp == VertLayerShape(enc_x.shape, <<cost_volume.shape[3], cost_volume.shape[4]>>,
                                 enc_context, cfg.cost_latent_dim, cfg.vert_c_dim)
       IN  IF shp = <<"error">>
           THEN /\ epc' = "raised"
                /\ UNCHANGED enc_x
           ELSE /\ enc_x' = SlotWise(enc_x, shp)
                /\ epc' = "vert"
    /\ UNCHANGED <<entry, cfg, feats, enc_context, cost_volume, cost_maps, h3w3,
                   short_cut, layer_idx, data, data_in>>
    /\ UNCHANGED corrVars
    /\ OnlyEnc

\* line 229, and the loop's step
EncFromGrid ==
    /\ epc = "vert"
    /\ LET B == cost_volume.shape[1]
           N == cost_volume.shape[3] * cost_volume.shape[4]
           T == cfg.cost_latent_token_num
       IN  IF FromGridOk(enc_x, B, N, T)
           THEN /\ enc_x' = FromGrid(enc_x, B, N, T)
                /\ layer_idx' = layer_idx + 1
                /\ epc' = "loop"
           ELSE /\ epc' = "raised"
                /\ UNCHANGED <<enc_x, layer_idx>>
    /\ UNCHANGED <<entry, cfg, feats, enc_context, cost_volume, cost_maps, h3w3,
                   short_cut, data, data_in>>
    /\ UNCHANGED corrVars
    /\ OnlyEnc

\* lines 231-232
EncReturn ==
    /\ epc = "loop"
    /\ layer_idx >= cfg.encoder_depth
    /\ LET shp == BroadcastShape(enc_x.shape, short_cut.shape)
       IN  IF shp = <<"error">>
           THEN /\ epc' = "raised"
                /\ UNCHANGED enc_x
           ELSE /\ enc_x' = SlotWise(enc_x, shp)
                /\ epc' = "encoded"
    /\ UNCHANGED <<entry, cfg, feats, enc_context, cost_volume, cost_maps, h3w3,
                   short_cut, layer_idx, data, data_in>>
    /\ UNCHANGED corrVars
    /\ OnlyEnc

\* MemoryEncoder.forward, lines 282-286
EncRecord ==
    /\ epc = "encoded"
    /\ entry = "MemoryEncoder"
    /\ data' = DictSet(DictSet(data, "cost_maps", cost_maps), "H3W3", h3w3)
    /\ epc' = "returned"
    /\ UNCHANGED <<entry, cfg, feats, enc_context, cost_volume, cost_maps, h3w3, enc_x,
                   short_cut, layer_idx, data_in>>
    /\ UNCHANGED corrVars
    /\ OnlyEnc

NextEnc ==
    \/ EncConstruct
    \/ EncCall
    \/ CorrSplitStep
    \/ CorrBmmStep
    \/ CorrReorderStep
    \/ EncCorrDone
    \/ EncTokenize
    \/ EncInputLayer
    \/ EncLayer
    \/ EncToGrid
    \/ EncVertLayer
    \/ EncFromGrid
    \/ EncReturn
    \/ EncRecord

Scenario(ctx) ==
    /\ entry = "MemoryEncoder"
    /\ feats.shape = <<2, 64, 16, 16>>
    /\ cfg.cost_heads_num = 4
    /\ cfg.cost_latent_token_num = 8
    /\ cfg.cost_latent_dim = 32
    /\ cfg.encoder_depth = 2
    /\ enc_context = ctx

ScenarioResult ==
    /\ enc_x.shape = <<256, 8, 32>>
    /\ data["cost_maps"].shape = <<256, 4, 16, 16>>

C8_BadConfigFailsAtConstruction ==
    (\/ cfg.encoder_latent_dim % cfg.cost_heads_num # 0
     \/ cfg.cost_latent_dim % NumHeads # 0)
      => /\ epc \in {"new", "ctor_raised"}
         /\ cpc = "off"

\* the number of the token of grid cell p (raster order) of batch item b and
\* latent index t: its place in the (B*N, T, D) arrangement, counted from 1
SlotOf(b, p, t, N, T) == (b * N + p) * T + t + 1

InitCorr == CorrInit /\ PadIdle /\ AttnIdle /\ PatchIdle /\ EncIdle
SpecCorr == InitCorr /\ [][NextCorr]_vars

InitPad == PadInit /\ CorrIdle /\ AttnIdle /\ PatchIdle /\ EncIdle
SpecPad == InitPad /\ [][NextPad]_vars

InitAttn == AttnInit /\ CorrIdle /\ PadIdle /\ PatchIdle /\ EncIdle
SpecAttn == InitAttn /\ [][NextAttn]_vars

InitPatch == PatchInit /\ CorrIdle /\ PadIdle /\ AttnIdle /\ EncIdle
SpecPatch == InitPatch /\ [][NextPatch]_vars

\* one forward call: of the spatial attention, or of the tokenizer
InitForward == InitAttn \/ InitPatch
NextForward == NextAttn \/ NextPatch
SpecForward == InitForward /\ [][NextForward]_vars

InitEnc == EncInit /\ CorrIdle /\ PadIdle /\ AttnIdle /\ PatchIdle
SpecEnc == InitEnc /\ [][NextEnc]_vars

====
